---- MODULE Spec2Model ----
(***************************************************************************)
(* Model of story_feature_policy_report.py: the priority reconciliation    *)
(* of Features, Policies and User Stories and the ordering of the report.  *)
(*                                                                         *)
(* An issue is a Python dict, modelled as a function from field names to   *)
(* values; a field that the script adds later (related) enlarges the       *)
(* domain.  An issue key such as IRS-12 is the sequence of its characters, *)
(* so that issue_number works on it as the regular expression does.        *)
(***************************************************************************)
EXTENDS Integers, Sequences, FiniteSets, TLC

VARIABLES
    features,          \* list of Feature issues          (line 541)
    policies,          \* list of Policy issues           (line 541)
    user_stories,      \* list of User Story issues       (line 541)
    raw,               \* the three lists as ingested, never changed
    modify1,           \* modify argument of infer_feature_policy_priorities
    modify2,           \* modify argument of check_story_priorities
    pc,                \* position in the script
    run,               \* 1 in the first run of the passes, 2 in a repeated run
    prev,              \* priorities by key at the start of the repeated run
    log,               \* lines printed to stdout, in order
    inferred,          \* by key: last value of the local `priority` of a pass
    user_stories_txt,  \* rendered user story section, as a list of entries
    features_txt,      \* rendered feature section, as a list of entries
    policies_txt       \* rendered policy section, as a list of entries

vars == <<features, policies, user_stories, raw, modify1, modify2, pc, run,
          prev, log, inferred, user_stories_txt, features_txt, policies_txt>>

----------------------------------------------------------------------------
(* Global setup, lines 28-31 *)

PRIORITY_TO_VALUE == [Critical |-> 3, Major |-> 2, Low |-> 1]

PrioritySet == DOMAIN PRIORITY_TO_VALUE

\* Python's None
None == "None"

\* an empty dict
EmptyDict == [x \in {} |-> <<>>]

\* one printed line: which message, about which issue, with which values
Msg(m, key, priority, inf, target) ==
    [msg |-> m, key |-> key, priority |-> priority, inferred |-> inf,
     target |-> target]

----------------------------------------------------------------------------
(* Keys and issue numbers, lines 53-62 *)

Upper == {"A", "B", "C", "D", "E", "F", "G", "H", "I", "J", "K", "L", "M",
          "N", "O", "P", "Q", "R", "S", "T", "U", "V", "W", "X", "Y", "Z"}

DigitChars == <<"0", "1", "2", "3", "4", "5", "6", "7", "8", "9">>

Digit == {DigitChars[i] : i \in 1..Len(DigitChars)}

DigitValue(c) == (CHOOSE i \in 1..Len(DigitChars) : DigitChars[i] = c) - 1

\* length of the longest run of characters of class cls starting at s[k]
RECURSIVE CharRun(_, _, _)
CharRun(s, k, cls) ==
    IF k > Len(s) \/ s[k] \notin cls THEN 0 ELSE 1 + CharRun(s, k + 1, cls)

\* int() of a string of decimal digits
RECURSIVE ToInt(_)
ToInt(ds) ==
    IF ds = <<>> THEN 0
    ELSE 10 * ToInt(SubSeq(ds, 1, Len(ds) - 1)) + DigitValue(ds[Len(ds)])

\* re.match(r'[A-Z]+\-(\d+)', key): int(group(1)) if it matches, else 0
key_number(key) ==
    LET a == CharRun(key, 1, Upper)
        d == CharRun(key, a + 2, Digit)
    IN IF a = 0 \/ a + 1 > Len(key) \/ key[a + 1] # "-" \/ d = 0
       THEN 0
       ELSE ToInt(SubSeq(key, a + 2, a + 1 + d))

issue_number(issue) == key_number(issue.key)

----------------------------------------------------------------------------
(* sorted(seq, key=...): a stable sort.  ks[i] is the sort key of seq[i];  *)
(* seq[i] comes before seq[j] iff its key is smaller, or equal with i < j. *)

sorted(seq, ks) ==
    LET n == Len(seq)
        before(j, i) == ks[j] < ks[i] \/ (ks[j] = ks[i] /\ j < i)
        rank(i) == 1 + Cardinality({j \in 1..n : before(j, i)})
    IN [r \in 1..n |-> seq[CHOOSE i \in 1..n : rank(i) = r]]

\* all the orders in which list(a_set) can deliver the members of a set
Orderings(S) ==
    {q \in [1..Cardinality(S) -> S] : \A i, j \in DOMAIN q : i # j => q[i] # q[j]}

RECURSIVE Flatten(_)
Flatten(ss) == IF ss = <<>> THEN <<>> ELSE Head(ss) \o Flatten(Tail(ss))

Max(S) == CHOOSE x \in S : \A y \in S : y <= x

----------------------------------------------------------------------------
(* Graph assembly, lines 543-550 *)

\* dict assignment d[k] = v
Put(d, k, v) == [x \in DOMAIN d \cup {k} |-> IF x = k THEN v ELSE d[x]]

\* lines 543-545: a later story with the same key replaces an earlier one
user_stories_by_key ==
    [k \in {user_stories[i].key : i \in DOMAIN user_stories} |->
        user_stories[Max({i \in DOMAIN user_stories : user_stories[i].key = k})]]

\* line 361: the issue has a list of 'Is relied upon by' links
HasReliedUponBy(issue) ==
    /\ DOMAIN issue.issuelinks # {}
    /\ "Is relied upon by" \in DOMAIN issue.issuelinks

\* Keep leaving the loop at the first target that is no user story
KeepBreaks(issue, by_key) ==
    IF HasReliedUponBy(issue)
    THEN LET targets == issue.issuelinks["Is relied upon by"]
             misses  == {i \in DOMAIN targets : targets[i] \notin DOMAIN by_key}
         IN IF misses = {} THEN targets
            ELSE SubSeq(targets, 1,
                        (CHOOSE i \in misses : \A j \in misses : i <= j) - 1)
    ELSE <<>>

\* lines 362-367: the targets that are user stories, in their order
Keep(issue, by_key) ==
    IF HasReliedUponBy(issue)
    THEN SelectSeq(issue.issuelinks["Is relied upon by"],
                   LAMBDA target : target \in DOMAIN by_key)
    ELSE <<>>

\* lines 368-370: one line for every target that is no user story
NonStory(issue, by_key) ==
    IF HasReliedUponBy(issue)
    THEN LET dropped == SelectSeq(issue.issuelinks["Is relied upon by"],
                                  LAMBDA target : target \notin DOMAIN by_key)
         IN [i \in 1..Len(dropped) |->
                Msg("Non-story linked, link ignored", issue.key, None, None,
                    dropped[i])]
    ELSE <<>>

\* lines 360, 366: the set epic_names of one issue
EpicNames(issue, by_key) ==
    {by_key[Keep(issue, by_key)[i]].epic_name : i \in DOMAIN Keep(issue, by_key)}

\* lines 359-373 for one issue; groups is list(epic_names) in the order the
\* set delivered its members
StoryEpicsIssue(issue, by_key, groups) ==
    LET links == IF HasReliedUponBy(issue)
                 THEN [issue.issuelinks EXCEPT
                          !["Is relied upon by"] = Keep(issue, by_key)]
                 ELSE issue.issuelinks
    IN [issue EXCEPT !.issuelinks = Put(links, "User story groups", groups)]

\* the orders list(epic_names) may take, one per issue of the list
GroupChoices(issues, by_key) ==
    LET each(i) == Orderings(EpicNames(issues[i], by_key))
    IN {g \in [DOMAIN issues -> UNION {each(i) : i \in DOMAIN issues}] :
           \A i \in DOMAIN issues : g[i] \in each(i)}

\* lines 356-373
add_story_epics(issues, by_key, groups) ==
    [issues |-> [i \in DOMAIN issues |->
                    StoryEpicsIssue(issues[i], by_key, groups[i])],
     log    |-> Flatten([i \in DOMAIN issues |-> NonStory(issues[i], by_key)])]

\* sorted(issue['issuelinks'].keys()), line 381
LinkTypeOrder ==
    <<"Is related to", "Is relied upon by", "Relies on", "User story groups">>

\* lines 379-385 for one issue: '' is <<>>, otherwise one entry per link
\* type in sorted order, its targets sorted by key_number
RelatedText(issue) ==
    LET types == SelectSeq(LinkTypeOrder,
                           LAMBDA t : t \in DOMAIN issue.issuelinks)
        line(t) == LET ts == issue.issuelinks[t]
                   IN [linktype |-> t,
                       targets  |-> sorted(ts, [i \in DOMAIN ts |->
                                                   key_number(ts[i])])]
    IN [i \in DOMAIN types |-> line(types[i])]

\* lines 376-385
add_related(issues) ==
    [i \in DOMAIN issues |-> Put(issues[i], "related", RelatedText(issues[i]))]

----------------------------------------------------------------------------
(* Lookup, lines 388-396 *)

\* the issue get_issue returns when it raises: never read
NoIssue == [key |-> <<>>, priority |-> None]

\* get_issue with the exception lost: a missing key yields a Low placeholder
get_issue_silent(issues, target) ==
    LET found == {i \in DOMAIN issues : issues[i].key = target}
    IN IF found = {}
       THEN [raised |-> FALSE, issue |-> [key |-> target, priority |-> "Low"]]
       ELSE [raised |-> FALSE,
             issue  |-> issues[CHOOSE i \in found : \A j \in found : i <= j]]

\* the first issue with the key; raised is "raise Exception(Cannot find ...)"
get_issue(issues, target) ==
    LET found == {i \in DOMAIN issues : issues[i].key = target}
    IN IF found = {}
       THEN [raised |-> TRUE, issue |-> NoIssue]
       ELSE [raised |-> FALSE,
             issue  |-> issues[CHOOSE i \in found : \A j \in found : i <= j]]

----------------------------------------------------------------------------
(* Pass 1, infer_feature_policy_priorities, lines 399-433 *)

\* Highest with the comparison turned round
HighestTurned(priority, p) ==
    IF priority = None \/ PRIORITY_TO_VALUE[p] < PRIORITY_TO_VALUE[priority]
    THEN p ELSE priority

\* lines 416-417: keep the highest priority seen
Highest(priority, p) ==
    IF priority = None \/ PRIORITY_TO_VALUE[p] > PRIORITY_TO_VALUE[priority]
    THEN p ELSE priority

\* lines 413-417: the loop over the targets from the k-th on, which stops at
\* the first target get_issue cannot find
RECURSIVE InferScan(_, _, _, _)
InferScan(targets, pool, k, priority) ==
    IF k > Len(targets) THEN [priority |-> priority, raised |-> FALSE]
    ELSE LET t == get_issue(pool, targets[k])
         IN IF t.raised THEN [priority |-> priority, raised |-> TRUE]
            ELSE InferScan(targets, pool, k + 1,
                           Highest(priority, t.issue.priority))

\* InferDecide assigning the inferred priority whenever the two differ
InferDecideAssigns(issue, priority, modify) ==
    IF priority = None
    THEN [priority |-> issue.priority, inferred |-> "Low",
          log |-> <<Msg("No priority calculated, treating as Low",
                        issue.key, None, None, None)>>]
    ELSE IF PRIORITY_TO_VALUE[issue.priority] < PRIORITY_TO_VALUE[priority]
    THEN [priority |-> IF modify THEN priority ELSE issue.priority,
          inferred |-> priority,
          log |-> <<Msg("INCONSISTENCY: lower from inferred priority",
                        issue.key, issue.priority, priority, None)>>
                  \o IF modify
                     THEN <<Msg("priority changed", issue.key,
                                issue.priority, priority, None)>>
                     ELSE <<>>]
    ELSE IF PRIORITY_TO_VALUE[issue.priority] > PRIORITY_TO_VALUE[priority]
    THEN [priority |-> IF modify THEN priority ELSE issue.priority,
          inferred |-> priority,
          log |-> <<Msg("higher than inferred priority", issue.key,
                        issue.priority, priority, None)>>]
    ELSE [priority |-> issue.priority, inferred |-> priority, log |-> <<>>]

\* lines 420-433: what is printed and assigned once priority is computed
InferDecide(issue, priority, modify) ==
    IF priority = None
    THEN [priority |-> issue.priority, inferred |-> "Low",
          log |-> <<Msg("No priority calculated, treating as Low",
                        issue.key, None, None, None)>>]
    ELSE IF PRIORITY_TO_VALUE[issue.priority] < PRIORITY_TO_VALUE[priority]
    THEN [priority |-> IF modify THEN priority ELSE issue.priority,
          inferred |-> priority,
          log |-> <<Msg("INCONSISTENCY: lower from inferred priority",
                        issue.key, issue.priority, priority, None)>>
                  \o IF modify
                     THEN <<Msg("priority changed", issue.key,
                                issue.priority, priority, None)>>
                     ELSE <<>>]
    ELSE IF PRIORITY_TO_VALUE[issue.priority] > PRIORITY_TO_VALUE[priority]
    THEN [priority |-> issue.priority, inferred |-> priority,
          log |-> <<Msg("higher than inferred priority", issue.key,
                        issue.priority, priority, None)>>]
    ELSE [priority |-> issue.priority, inferred |-> priority, log |-> <<>>]

\* lines 411-433 for one issue of fp
InferIssue(issue, pool, modify) ==
    LET has  == "Is relied upon by" \in DOMAIN issue.issuelinks
        scan == IF has
                THEN InferScan(issue.issuelinks["Is relied upon by"], pool, 1,
                               None)
                ELSE [priority |-> None, raised |-> FALSE]
        note == IF has THEN <<>>
                ELSE <<Msg("is not relied upon by any issue", issue.key,
                           None, None, None)>>
        d    == InferDecide(issue, scan.priority, modify)
    IN IF scan.raised
       THEN [raised |-> TRUE, issue |-> issue, inferred |-> None,
             log |-> note]
       ELSE [raised |-> FALSE,
             issue |-> [issue EXCEPT !.priority = d.priority],
             inferred |-> d.inferred, log |-> note \o d.log]

\* line 410: the loop over fp from the k-th issue on; an exception leaves
\* the issues already rewritten as they are
RECURSIVE InferLoop(_, _, _, _, _)
InferLoop(fp, pool, modify, k, acc) ==
    IF k > Len(fp) THEN acc
    ELSE LET r == InferIssue(fp[k], pool, modify)
         IN IF r.raised
            THEN [acc EXCEPT !.raised = TRUE, !.log = acc.log \o r.log]
            ELSE InferLoop(fp, pool, modify, k + 1,
                    [fp |-> [acc.fp EXCEPT ![k] = r.issue],
                     log |-> acc.log \o r.log,
                     inferred |-> [acc.inferred EXCEPT ![k] = r.inferred],
                     raised |-> FALSE])

infer_feature_policy_priorities(stories, other, fp, modify) ==
    InferLoop(fp, stories \o other, modify, 1,
              [fp |-> fp, log |-> <<>>,
               inferred |-> [i \in DOMAIN fp |-> None], raised |-> FALSE])

----------------------------------------------------------------------------
(* Pass 2, check_story_priorities, lines 436-475 *)

\* Lowest with the comparison turned round
LowestTurned(priority, p) ==
    IF priority = None \/ PRIORITY_TO_VALUE[p] > PRIORITY_TO_VALUE[priority]
    THEN p ELSE priority

\* lines 458-459: keep the lowest priority seen
Lowest(priority, p) ==
    IF priority = None \/ PRIORITY_TO_VALUE[p] < PRIORITY_TO_VALUE[priority]
    THEN p ELSE priority

\* lines 452-459: the loop over the targets from the k-th on
RECURSIVE CheckScan(_, _, _, _)
CheckScan(targets, pool, k, priority) ==
    IF k > Len(targets) THEN [priority |-> priority, raised |-> FALSE]
    ELSE LET t == get_issue(pool, targets[k])
         IN IF t.raised \/ t.issue.priority = None
            THEN [priority |-> priority, raised |-> TRUE]
            ELSE CheckScan(targets, pool, k + 1,
                           Lowest(priority, t.issue.priority))

\* CheckDecide assigning the inferred priority to a lower story as well
CheckDecideRaises(issue, priority, modify) ==
    IF priority = None
    THEN [priority |-> issue.priority, inferred |-> "Low",
          log |-> <<Msg("No priority calculated, treating as Low",
                        issue.key, None, None, None)>>]
    ELSE IF PRIORITY_TO_VALUE[issue.priority] > PRIORITY_TO_VALUE[priority]
    THEN [priority |-> IF modify THEN priority ELSE issue.priority,
          inferred |-> priority,
          log |-> <<Msg("INCONSISTENCY: higher than inferred priority",
                        issue.key, issue.priority, priority, None)>>
                  \o IF modify
                     THEN <<Msg("Setting to priority", issue.key, None,
                                priority, None)>>
                     ELSE <<>>]
    ELSE IF PRIORITY_TO_VALUE[issue.priority] < PRIORITY_TO_VALUE[priority]
    THEN [priority |-> IF modify THEN priority ELSE issue.priority,
          inferred |-> priority,
          log |-> <<Msg("lower than inferred priority", issue.key,
                        issue.priority, priority, None)>>]
    ELSE [priority |-> issue.priority, inferred |-> priority, log |-> <<>>]

\* CheckDecide rewriting the story whatever modify says
CheckDecideAlways(issue, priority, modify) ==
    IF priority = None
    THEN [priority |-> issue.priority, inferred |-> "Low",
          log |-> <<Msg("No priority calculated, treating as Low",
                        issue.key, None, None, None)>>]
    ELSE IF PRIORITY_TO_VALUE[issue.priority] > PRIORITY_TO_VALUE[priority]
    THEN [priority |-> priority,
          inferred |-> priority,
          log |-> <<Msg("INCONSISTENCY: higher than inferred priority",
                        issue.key, issue.priority, priority, None)>>
                  \o IF modify
                     THEN <<Msg("Setting to priority", issue.key, None,
                                priority, None)>>
                     ELSE <<>>]
    ELSE IF PRIORITY_TO_VALUE[issue.priority] < PRIORITY_TO_VALUE[priority]
    THEN [priority |-> issue.priority, inferred |-> priority,
          log |-> <<Msg("lower than inferred priority", issue.key,
                        issue.priority, priority, None)>>]
    ELSE [priority |-> issue.priority, inferred |-> priority, log |-> <<>>]

\* lines 463-475: what is printed and assigned once priority is computed
CheckDecide(issue, priority, modify) ==
    IF priority = None
    THEN [priority |-> issue.priority, inferred |-> "Low",
          log |-> <<Msg("No priority calculated, treating as Low",
                        issue.key, None, None, None)>>]
    ELSE IF PRIORITY_TO_VALUE[issue.priority] > PRIORITY_TO_VALUE[priority]
    THEN [priority |-> IF modify THEN priority ELSE issue.priority,
          inferred |-> priority,
          log |-> <<Msg("INCONSISTENCY: higher than inferred priority",
                        issue.key, issue.priority, priority, None)>>
                  \o IF modify
                     THEN <<Msg("Setting to priority", issue.key, None,
                                priority, None)>>
                     ELSE <<>>]
    ELSE IF PRIORITY_TO_VALUE[issue.priority] < PRIORITY_TO_VALUE[priority]
    THEN [priority |-> issue.priority, inferred |-> priority,
          log |-> <<Msg("lower than inferred priority", issue.key,
                        issue.priority, priority, None)>>]
    ELSE [priority |-> issue.priority, inferred |-> priority, log |-> <<>>]

\* lines 450-475 for one user story
CheckIssue(issue, pool, modify) ==
    LET has  == "Relies on" \in DOMAIN issue.issuelinks
        scan == IF has
                THEN CheckScan(issue.issuelinks["Relies on"], pool, 1, None)
                ELSE [priority |-> None, raised |-> FALSE]
        note == IF has THEN <<>>
                ELSE <<Msg("does not rely on any feature or policy",
                           issue.key, None, None, None)>>
        d    == CheckDecide(issue, scan.priority, modify)
    IN IF scan.raised
       THEN [raised |-> TRUE, issue |-> issue, inferred |-> None,
             log |-> note]
       ELSE [raised |-> FALSE,
             issue |-> [issue EXCEPT !.priority = d.priority],
             inferred |-> d.inferred, log |-> note \o d.log]

\* line 449: the loop over user_stories from the k-th story on
RECURSIVE CheckLoop(_, _, _, _, _)
CheckLoop(stories, pool, modify, k, acc) ==
    IF k > Len(stories) THEN acc
    ELSE LET r == CheckIssue(stories[k], pool, modify)
         IN IF r.raised
            THEN [acc EXCEPT !.raised = TRUE, !.log = acc.log \o r.log]
            ELSE CheckLoop(stories, pool, modify, k + 1,
                    [fp |-> [acc.fp EXCEPT ![k] = r.issue],
                     log |-> acc.log \o r.log,
                     inferred |-> [acc.inferred EXCEPT ![k] = r.inferred],
                     raised |-> FALSE])

check_story_priorities(feats, pols, stories, modify) ==
    CheckLoop(stories, feats \o pols, modify, 1,
              [fp |-> stories, log |-> <<>>,
               inferred |-> [i \in DOMAIN stories |-> None],
               raised |-> FALSE])

\* the variable inferred after a pass over the list done with result r
Inferred(done, r) ==
    [k \in DOMAIN inferred |->
        LET at == {i \in DOMAIN done : done[i].key = k /\ r.inferred[i] # None}
        IN IF at = {} THEN inferred[k] ELSE r.inferred[Max(at)]]

----------------------------------------------------------------------------
(* User story section of the report, lines 618-628 *)

\* the characters of the model in code point order
Alphabet ==
    <<"-", "0", "1", "2", "3", "4", "5", "6", "7", "8", "9",
      "A", "B", "C", "D", "E", "F", "G", "H", "I", "J", "K", "L", "M",
      "N", "O", "P", "Q", "R", "S", "T", "U", "V", "W", "X", "Y", "Z",
      "a", "b", "c", "d", "e", "f", "g", "h", "i", "j", "k", "l", "m",
      "n", "o", "p", "q", "r", "s", "t", "u", "v", "w", "x", "y", "z">>

Ord(c) == CHOOSE i \in DOMAIN Alphabet : Alphabet[i] = c

\* a < b for two Python strings
RECURSIVE StrLess(_, _)
StrLess(a, b) ==
    IF b = <<>> THEN FALSE
    ELSE IF a = <<>> THEN TRUE
    ELSE IF Head(a) # Head(b) THEN Ord(Head(a)) < Ord(Head(b))
    ELSE StrLess(Tail(a), Tail(b))

\* sorted(a_set_of_strings), line 622
SortedNames(S) ==
    [r \in 1..Cardinality(S) |->
        CHOOSE x \in S : Cardinality({y \in S : StrLess(y, x)}) = r - 1]

\* line 624: the sort key of a user story
CompositeKey(issue) ==
    (4 - PRIORITY_TO_VALUE[issue.priority]) * 10000 + issue_number(issue)

\* line 627: the text given to a story with no related issues
NoRelated ==
    <<[linktype |-> "No features or policies have been associated",
       targets |-> <<>>]>>

\* lines 626-627
WithRelated(issue) ==
    IF issue.related = <<>> THEN [issue EXCEPT !.related = NoRelated]
    ELSE issue

\* lines 623-628: the heading of one epic and its stories in sorted order
EpicSection(stories, epic_name) ==
    LET order == sorted(stories,
                        [i \in DOMAIN stories |-> CompositeKey(stories[i])])
        mine  == SelectSeq(order, LAMBDA issue : issue.epic_name = epic_name)
    IN <<[kind |-> "subsection", key |-> <<>>, epic_name |-> epic_name,
          priority |-> None, related |-> <<>>]>>
       \o [i \in DOMAIN mine |->
              [kind |-> "subsubsection", key |-> mine[i].key,
               epic_name |-> epic_name, priority |-> mine[i].priority,
               related |-> WithRelated(mine[i]).related]]

\* lines 618-628
RenderStories(stories) ==
    LET names == SortedNames({stories[i].epic_name : i \in DOMAIN stories})
    IN Flatten([e \in DOMAIN names |-> EpicSection(stories, names[e])])

----------------------------------------------------------------------------
(* Effort estimates, lines 477-496.  issue['days'] is a float; the model   *)
(* holds it as a whole number of half days, which floats add exactly.      *)

\* lines 489-490: totals[priority] after the loop, the sum in list order of
\* the days of the first k issues that are of the priority and have days
RECURSIVE Total(_, _, _)
Total(issues, priority, k) ==
    IF k = 0 THEN 0
    ELSE Total(issues, priority, k - 1)
         + IF issues[k].priority = priority /\ "days" \in DOMAIN issues[k]
           THEN issues[k].days ELSE 0

\* line 488: num[priority] after the loop
Num(issues, priority) ==
    Cardinality({i \in DOMAIN issues : issues[i].priority = priority})

\* lines 491-492: missing[priority] after the loop
Missing(issues, priority) ==
    LET without == SelectSeq(issues, LAMBDA issue :
                       issue.priority = priority /\ "days" \notin DOMAIN issue)
    IN [i \in DOMAIN without |-> without[i].key]

\* "%.1d" % x for a float x >= 0 given in half days: %d takes the integer
\* part of x, printed with at least one digit; the result is whole days
FormatD(half_days) == half_days \div 2

\* sorted(totals.keys()), line 493
TierOrder == <<"Critical", "Low", "Major">>

\* lines 494-496: the lines printed for one priority
EffortLines(issues, priority) ==
    <<[msg |-> "Effort estimate", key |-> <<>>, priority |-> priority,
       inferred |-> None, target |-> None,
       num |-> Num(issues, priority),
       total |-> FormatD(Total(issues, priority, Len(issues)))]>>
    \o IF Len(Missing(issues, priority)) > 0
       THEN <<Msg("missing estimates for", <<>>, priority, None,
                  Missing(issues, priority))>>
       ELSE <<>>

\* lines 477-496
add_effort_estimates(issues) ==
    LET tiers == SelectSeq(TierOrder, LAMBDA priority :
                     \E i \in DOMAIN issues : issues[i].priority = priority)
    IN Flatten([t \in DOMAIN tiers |-> EffortLines(issues, tiers[t])])

----------------------------------------------------------------------------
(* Feature and policy sections of the report, lines 590-609 *)

\* lines 30-31 with the minus sign lost: lowest first
PRIORITIES_LowestFirst ==
    LET keys == <<"Critical", "Major", "Low">>
    IN sorted(keys, [i \in DOMAIN keys |-> PRIORITY_TO_VALUE[keys[i]]])

\* lines 30-31: the keys of PRIORITY_TO_VALUE sorted by minus their value
PRIORITIES ==
    LET keys == <<"Critical", "Major", "Low">>
    IN sorted(keys, [i \in DOMAIN keys |-> 0 - PRIORITY_TO_VALUE[keys[i]]])

\* lines 592-595 and 606-609: the heading of one priority and the issues of
\* that priority in the order of sorted(issues, key=issue_number)
PrioritySection(issues, priority) ==
    LET order == sorted(issues,
                        [i \in DOMAIN issues |-> issue_number(issues[i])])
        mine  == SelectSeq(order, LAMBDA issue : issue.priority = priority)
    IN <<[kind |-> "subsection", key |-> <<>>, priority |-> priority,
          related |-> <<>>]>>
       \o [i \in DOMAIN mine |->
              [kind |-> "subsubsection", key |-> mine[i].key,
               priority |-> mine[i].priority, related |-> mine[i].related]]

\* lines 590-595 and 604-609
RenderByPriority(issues) ==
    Flatten([p \in DOMAIN PRIORITIES |-> PrioritySection(issues, PRIORITIES[p])])

----------------------------------------------------------------------------
(* The issue sets of the model *)

\* the keys of a list of issues
Keys(seq) == {seq[i].key : i \in DOMAIN seq}

\* at most this many reliance links in an issue set
MaxLinks == 3

\* at most this many user stories in a rendered report
MaxStories == 3

KeyS1 == <<"A", "-", "1">>
KeyS2 == <<"A", "-", "2">>
KeyF1 == <<"A", "-", "3">>
KeyP1 == <<"A", "-", "4">>
\* a key that no issue has
KeyX  == <<"A", "-", "9">>

IssueKeys == {KeyS1, KeyS2, KeyF1, KeyP1}

EpicOps == <<"O", "p", "s">>
EpicUI  == <<"U", "I">>

\* the keys an issue's reliance links may name, in the order they are listed
Candidates(key) ==
    CASE key = KeyF1 -> <<KeyS1, KeyX, KeyS2, KeyP1>>
      [] key = KeyP1 -> <<KeyF1, KeyS1, KeyX, KeyS2>>
      [] key = KeyS1 -> <<KeyF1, KeyP1, KeyX>>
      [] key = KeyS2 -> <<KeyP1, KeyF1, KeyX>>

Slots ==
    {<<k, Candidates(k)[i]>> : k \in {KeyF1}, i \in DOMAIN Candidates(KeyF1)}
    \cup {<<k, Candidates(k)[i]>> : k \in {KeyP1}, i \in DOMAIN Candidates(KeyP1)}
    \cup {<<k, Candidates(k)[i]>> : k \in {KeyS1}, i \in DOMAIN Candidates(KeyS1)}
    \cup {<<k, Candidates(k)[i]>> : k \in {KeyS2}, i \in DOMAIN Candidates(KeyS2)}

LinkChoices == {L \in SUBSET Slots : Cardinality(L) <= MaxLinks}

\* parse_issue_links, lines 170-196: a link type is in the dict only when
\* it has a target
IssueLinks(key, linktype, L) ==
    LET targets == SelectSeq(Candidates(key), LAMBDA t : <<key, t>> \in L)
    IN IF targets = <<>> THEN EmptyDict
       ELSE [x \in {linktype} |-> targets]

\* split_jira_results, lines 304-327
FeatureOrPolicy(key, type, priority, L) ==
    [key |-> key, type |-> type, priority |-> priority,
     issuelinks |-> IssueLinks(key, "Is relied upon by", L)]

\* split_jira_results and add_epic_names, lines 324-327 and 342-353
UserStory(key, priority, epic_name, L) ==
    [key |-> key, type |-> "User Story", priority |-> priority,
     epic_name |-> epic_name, issuelinks |-> IssueLinks(key, "Relies on", L)]

InitIssues(L, prio) ==
    /\ features = <<FeatureOrPolicy(KeyF1, "Feature", prio[KeyF1], L)>>
    /\ policies = <<FeatureOrPolicy(KeyP1, "Policy", prio[KeyP1], L)>>
    /\ user_stories = <<UserStory(KeyS1, prio[KeyS1], EpicOps, L),
                        UserStory(KeyS2, prio[KeyS2], EpicOps, L)>>
    /\ raw = [features |-> features, policies |-> policies,
              user_stories |-> user_stories]
    /\ run = 1
    /\ prev = prio
    /\ log = <<>>
    /\ inferred = [k \in IssueKeys |-> None]
    /\ user_stories_txt = <<>>
    /\ features_txt = <<>>
    /\ policies_txt = <<>>

\* the script: the state at line 543, with the default modify arguments
Init ==
    \E L \in LinkChoices, prio \in [IssueKeys -> PrioritySet] :
        /\ InitIssues(L, prio)
        /\ modify1 = TRUE
        /\ modify2 = FALSE
        /\ pc = "add_story_epics"

\* the two passes called on an issue set, with any modify arguments
InitPasses ==
    \E L \in LinkChoices, prio \in [IssueKeys -> PrioritySet] :
        /\ InitIssues(L, prio)
        /\ modify1 \in BOOLEAN
        /\ modify2 \in BOOLEAN
        /\ pc = "infer_features"

\* the reliance of a story on a Feature or Policy, as the story lists it
StoryPairs == {<<s, f>> : s \in {KeyS1, KeyS2}, f \in {KeyF1, KeyP1}}

\* both ends of each reliance of M: the story's 'Relies on' and the
\* Feature's or Policy's 'Is relied upon by'
BothEnds(M) == M \cup {<<pair[2], pair[1]>> : pair \in M}

\* links next to the two-ended ones: a Policy relied upon by a Feature, a
\* story's 'Relies on' that may lack its other end, and one to no issue
OneEnded == {<<KeyP1, KeyF1>>, <<KeyS2, KeyF1>>, <<KeyS1, KeyX>>}

\* the script run on issues whose reliance links are listed at both ends,
\* with any modify arguments
InitInverse ==
    \E M \in SUBSET StoryPairs, E \in SUBSET OneEnded,
       prio \in [IssueKeys -> PrioritySet] :
        /\ InitIssues(BothEnds(M) \cup E, prio)
        /\ modify1 \in BOOLEAN
        /\ modify2 \in BOOLEAN
        /\ pc = "add_story_epics"

RenderKeys == {<<"A", "-", "2">>, <<"A", "-", "7">>,
               <<"A", "-", "1", "0", "0", "0", "5">>}

RenderStory(key, priority, epic_name) ==
    [key |-> key, type |-> "User Story", priority |-> priority,
     epic_name |-> epic_name, issuelinks |-> EmptyDict, related |-> <<>>]

RenderChoices ==
    {RenderStory(k, p, e) : k \in RenderKeys, p \in PrioritySet,
                            e \in {EpicOps, EpicUI}}

\* the state at line 618 of a run on user stories without links
InitRender ==
    /\ user_stories \in
          {q \in UNION {[1..n -> RenderChoices] : n \in 1..MaxStories} :
              \A i, j \in DOMAIN q : i # j => q[i].key # q[j].key}
    /\ features = <<>>
    /\ policies = <<>>
    /\ raw = [features |-> features, policies |-> policies,
              user_stories |-> user_stories]
    /\ modify1 = TRUE
    /\ modify2 = FALSE
    /\ run = 1
    /\ prev = [i \in DOMAIN user_stories |-> user_stories[i].priority]
    /\ log = <<>>
    /\ inferred = [k \in {user_stories[i].key : i \in DOMAIN user_stories} |->
                      "Low"]
    /\ user_stories_txt = <<>>
    /\ features_txt = <<>>
    /\ policies_txt = <<>>
    /\ pc = "render_user_stories"

\* at most this many Features in a rendered report
MaxFeatures == 3

\* two pairs of keys with the same issue number, and A-10 after A-2
FeatureKeys == {<<"A", "-", "2">>, <<"A", "-", "7">>, <<"B", "-", "7">>,
                <<"A", "-", "1", "0">>}

PolicyKeys == {<<"A", "-", "4">>, <<"B", "-", "4">>}

\* a Feature or Policy without links as add_story_epics and add_related
\* leave it
ReportIssue(key, type, priority) ==
    LET issue == [key |-> key, type |-> type, priority |-> priority,
                  issuelinks |-> EmptyDict]
    IN add_related(<<StoryEpicsIssue(issue, EmptyDict, <<>>)>>)[1]

\* the lists of at most n issues with different keys
ReportLists(keys, type, n) ==
    LET choices == {ReportIssue(k, type, p) : k \in keys, p \in PrioritySet}
    IN {q \in UNION {[1..m -> choices] : m \in 0..n} :
           \A i, j \in DOMAIN q : i # j => q[i].key # q[j].key}

\* the state at line 590 of a run on Features and Policies without links
InitGroups ==
    /\ features \in ReportLists(FeatureKeys, "Feature", MaxFeatures)
    /\ policies \in ReportLists(PolicyKeys, "Policy", Cardinality(PolicyKeys))
    /\ user_stories = <<>>
    /\ raw = [features |-> features, policies |-> policies,
              user_stories |-> user_stories]
    /\ modify1 = TRUE
    /\ modify2 = FALSE
    /\ run = 1
    /\ prev = [k \in Keys(features \o policies) |->
                  get_issue(features \o policies, k).issue.priority]
    /\ log = <<>>
    /\ inferred = [k \in Keys(features \o policies) |-> "Low"]
    /\ user_stories_txt = <<>>
    /\ features_txt = <<>>
    /\ policies_txt = <<>>
    /\ pc = "render_features"

\* the keys of the Features of a run that adds up estimates, in list order
EffortKeys == <<<<"A", "-", "2">>, <<"A", "-", "7">>, <<"B", "-", "7">>,
                <<"A", "-", "1", "0">>>>

\* parse_timeestimate, lines 237-256: 0.5, 1.5 and 2 days, in half days
DaysChoices == {1, 3, 4}

\* the Features the key may be: of any priority, with or without days
EffortChoices(key) ==
    {ReportIssue(key, "Feature", p) : p \in PrioritySet}
    \cup {Put(ReportIssue(key, "Feature", p), "days", d) :
             p \in PrioritySet, d \in DaysChoices}

\* the state at line 563 of a run on Features without links
InitEffort ==
    /\ features \in
          {q \in UNION {[1..m -> UNION {EffortChoices(EffortKeys[i]) :
                                           i \in DOMAIN EffortKeys}] :
                           m \in 1..MaxFeatures} :
              /\ Len(q) <= Len(EffortKeys)
              /\ \A i \in DOMAIN q : q[i].key = EffortKeys[i]}
    /\ policies = <<>>
    /\ user_stories = <<>>
    /\ raw = [features |-> features, policies |-> policies,
              user_stories |-> user_stories]
    /\ modify1 = TRUE
    /\ modify2 = FALSE
    /\ run = 1
    /\ prev = [k \in Keys(features) |-> get_issue(features, k).issue.priority]
    /\ log = <<>>
    /\ inferred = [k \in Keys(features) |-> "Low"]
    /\ user_stories_txt = <<>>
    /\ features_txt = <<>>
    /\ policies_txt = <<>>
    /\ pc = "add_effort_estimates"

----------------------------------------------------------------------------
(* The steps of the script, lines 543-628 *)

\* lines 543-547
AddStoryEpics ==
    /\ pc = "add_story_epics"
    /\ \E gf \in GroupChoices(features, user_stories_by_key),
          gp \in GroupChoices(policies, user_stories_by_key) :
          LET f == add_story_epics(features, user_stories_by_key, gf)
              p == add_story_epics(policies, user_stories_by_key, gp)
          IN /\ features' = f.issues
             /\ policies' = p.issues
             /\ log' = log \o f.log \o p.log
    /\ pc' = "add_related"
    /\ UNCHANGED <<user_stories, raw, modify1, modify2, run, prev, inferred,
                   user_stories_txt, features_txt, policies_txt>>

\* lines 548-550
AddRelated ==
    /\ pc = "add_related"
    /\ features' = add_related(features)
    /\ policies' = add_related(policies)
    /\ user_stories' = add_related(user_stories)
    /\ pc' = "infer_features"
    /\ UNCHANGED <<raw, modify1, modify2, run, prev, log, inferred,
                   user_stories_txt, features_txt, policies_txt>>

\* line 554
InferFeatures ==
    /\ pc = "infer_features"
    /\ LET r == infer_feature_policy_priorities(user_stories, <<>>, features,
                                                modify1)
       IN /\ features' = r.fp
          /\ log' = log \o r.log
          /\ inferred' = Inferred(features, r)
          /\ pc' = IF r.raised THEN "aborted" ELSE "infer_policies"
    /\ UNCHANGED <<policies, user_stories, raw, modify1, modify2, run, prev,
                   user_stories_txt, features_txt, policies_txt>>

\* line 556
InferPolicies ==
    /\ pc = "infer_policies"
    /\ LET r == infer_feature_policy_priorities(user_stories, features,
                                                policies, modify1)
       IN /\ policies' = r.fp
          /\ log' = log \o r.log
          /\ inferred' = Inferred(policies, r)
          /\ pc' = IF r.raised THEN "aborted" ELSE "check_story_priorities"
    /\ UNCHANGED <<features, user_stories, raw, modify1, modify2, run, prev,
                   user_stories_txt, features_txt, policies_txt>>

\* line 560
CheckStories ==
    /\ pc = "check_story_priorities"
    /\ LET r == check_story_priorities(features, policies, user_stories,
                                       modify2)
       IN /\ user_stories' = r.fp
          /\ log' = log \o r.log
          /\ inferred' = Inferred(user_stories, r)
          /\ pc' = IF r.raised THEN "aborted" ELSE "done"
    /\ UNCHANGED <<features, policies, raw, modify1, modify2, run, prev,
                   user_stories_txt, features_txt, policies_txt>>

\* the priorities of all issues, by key
Priorities ==
    LET all == features \o policies \o user_stories
    IN [k \in {all[i].key : i \in DOMAIN all} |->
           get_issue(all, k).issue.priority]

\* the passes of lines 552-560 are run once more on the issues they left
Rerun ==
    /\ pc = "done"
    /\ run = 1
    /\ run' = 2
    /\ prev' = Priorities
    /\ log' = <<>>
    /\ pc' = "infer_features"
    /\ UNCHANGED <<features, policies, user_stories, raw, modify1, modify2,
                   inferred, user_stories_txt, features_txt, policies_txt>>

\* lines 618-628
RenderUserStories ==
    /\ pc = "render_user_stories"
    /\ user_stories_txt' = RenderStories(user_stories)
    /\ user_stories' = [i \in DOMAIN user_stories |->
                           WithRelated(user_stories[i])]
    /\ pc' = "rendered"
    /\ UNCHANGED <<features, policies, raw, modify1, modify2, run, prev, log,
                   inferred, features_txt, policies_txt>>

\* lines 563-564
AddEffortEstimates ==
    /\ pc = "add_effort_estimates"
    /\ log' = log \o add_effort_estimates(features)
    /\ pc' = "render_features"
    /\ UNCHANGED <<features, policies, user_stories, raw, modify1, modify2,
                   run, prev, inferred, user_stories_txt, features_txt,
                   policies_txt>>

\* lines 590-595
RenderFeatures ==
    /\ pc = "render_features"
    /\ features_txt' = RenderByPriority(features)
    /\ pc' = "render_policies"
    /\ UNCHANGED <<features, policies, user_stories, raw, modify1, modify2,
                   run, prev, log, inferred, user_stories_txt, policies_txt>>

\* lines 604-609
RenderPolicies ==
    /\ pc = "render_policies"
    /\ policies_txt' = RenderByPriority(policies)
    /\ pc' = "render_user_stories"
    /\ UNCHANGED <<features, policies, user_stories, raw, modify1, modify2,
                   run, prev, log, inferred, user_stories_txt, features_txt>>

Next ==
    \/ AddStoryEpics
    \/ AddRelated
    \/ InferFeatures
    \/ InferPolicies
    \/ CheckStories

Spec == Init /\ [][Next]_vars

NextPasses ==
    \/ InferFeatures
    \/ InferPolicies
    \/ CheckStories
    \/ Rerun

SpecPasses == InitPasses /\ [][NextPasses]_vars

NextRender == RenderUserStories

SpecRender == InitRender /\ [][NextRender]_vars

NextGroups ==
    \/ RenderFeatures
    \/ RenderPolicies
    \/ RenderUserStories

SpecGroups == InitGroups /\ [][NextGroups]_vars

NextEffort == AddEffortEstimates

SpecEffort == InitEffort /\ [][NextEffort]_vars

SpecInverse == InitInverse /\ [][Next]_vars

----------------------------------------------------------------------------
(* Properties *)

PV(p) == PRIORITY_TO_VALUE[p]

Members(seq) == {seq[i] : i \in DOMAIN seq}

\* the keys an issue lists under a link type
Targets(issue, linktype) ==
    IF linktype \in DOMAIN issue.issuelinks
    THEN Members(issue.issuelinks[linktype])
    ELSE {}

AllIssues == features \o policies \o user_stories

RawIssues == raw.features \o raw.policies \o raw.user_stories

\* the lines a step has added to the log
Printed == SubSeq(log', Len(log) + 1, Len(log'))

\* how many of the lines are message m about the issue key
Count(lines, m, key) ==
    Cardinality({n \in DOMAIN lines : lines[n].msg = m /\ lines[n].key = key})

\* C1: right after Pass 1 (over Features, then over Policies) with modify
\* enabled, every Feature and every Policy has a priority at least as high
\* as every issue that its 'Is relied upon by' links name.
C1_Pass1Dominates ==
    (pc = "check_story_priorities" /\ modify1) =>
        \A i \in Members(features \o policies) :
            \A s \in Members(AllIssues) :
                s.key \in Targets(i, "Is relied upon by")
                    => PV(i.priority) >= PV(s.priority)

\* a Policy relied upon by a story and by a Feature, raised by Pass 1 to
\* the priority the Feature was itself raised to
C1_Witness ==
    /\ pc = "check_story_priorities"
    /\ modify1
    /\ run = 1
    /\ {KeyF1, KeyS1} \subseteq Targets(policies[1], "Is relied upon by")
    /\ PV(features[1].priority) > PV(raw.features[1].priority)
    /\ PV(policies[1].priority) > PV(raw.policies[1].priority)
    /\ PV(policies[1].priority) > PV(user_stories[1].priority)

\* C3: a step of Pass 1 never lowers a priority, whatever its modify flag;
\* a Feature or Policy whose priority is higher than the inferred one keeps
\* it, no change is printed for it, and when it has dependents the line
\* "higher than inferred priority" is printed for it.
C3_Step ==
    pc \in {"infer_features", "infer_policies"} =>
        /\ \A k \in DOMAIN Priorities : PV(Priorities'[k]) >= PV(Priorities[k])
        /\ pc' # "aborted" =>
             \A i \in Members(IF pc = "infer_features" THEN features
                              ELSE policies) :
                PV(i.priority) > PV(inferred'[i.key]) =>
                    /\ Priorities'[i.key] = i.priority
                    /\ Count(Printed, "priority changed", i.key) = 0
                    /\ Targets(i, "Is relied upon by") # {} =>
                         Count(Printed, "higher than inferred priority",
                               i.key) = 1

\* C3: every step satisfies C3_Step: Pass 1 never lowers a priority.
C3_Pass1NeverLowers == [][C3_Step]_vars

\* Pass 1 over the Features is done and has left a Feature above the
\* priority inferred from the stories that rely on it
C3_Witness ==
    /\ pc = "infer_policies"
    /\ modify1
    /\ Targets(features[1], "Is relied upon by") # {}
    /\ PV(features[1].priority) > PV(inferred[KeyF1])

\* C4: a step of Pass 2 never raises the priority of a user story, whatever
\* its modify flag.
C4_Step ==
    pc = "check_story_priorities" =>
        \A i \in DOMAIN user_stories :
            PV(user_stories'[i].priority) <= PV(user_stories[i].priority)

\* C4: every step satisfies C4_Step: Pass 2 never raises a story.
C4_Pass2NeverRaises == [][C4_Step]_vars

\* Pass 2 with modify has lowered one story and has left alone another one
\* that is below the priority inferred for it
C4_Witness ==
    /\ pc = "done"
    /\ modify2
    /\ \E i \in DOMAIN user_stories :
          PV(user_stories[i].priority) < PV(raw.user_stories[i].priority)
    /\ \E j \in DOMAIN user_stories :
          /\ Targets(user_stories[j], "Relies on") # {}
          /\ PV(user_stories[j].priority) < PV(inferred[user_stories[j].key])

\* C5: with modify = false a step of Pass 2 changes the priority of no
\* User Story, Feature or Policy.
C5_Step ==
    (pc = "check_story_priorities" /\ ~modify2) => Priorities' = Priorities

\* C5: every step satisfies C5_Step: Pass 2 without modify changes no
\* priority.
C5_Pass2DefaultReadOnly == [][C5_Step]_vars

\* Pass 2 of the script has reported an inconsistency and is done
C5_Witness ==
    /\ pc = "done"
    /\ ~modify2
    /\ \E n \in DOMAIN log :
          log[n].msg = "INCONSISTENCY: higher than inferred priority"

RawOf(key) == get_issue(RawIssues, key).issue

Least(S) == CHOOSE x \in S : \A y \in S : x <= y

\* C2: in the script (add_story_epics, then Pass 1 over Features, then over
\* Policies), a Policy whose ingested 'Is relied upon by' links name a
\* Feature that Pass 1 raised gets an inferred priority computed from the
\* raised priority of that Feature, so at least as high.
C2_PolicySeesRaisedFeature ==
    pc \in {"check_story_priorities", "done"} =>
        \A p \in Members(raw.policies), f \in Members(features) :
            (/\ f.key \in Targets(p, "Is relied upon by")
             /\ PV(f.priority) > PV(RawOf(f.key).priority))
                => PV(inferred[p.key]) >= PV(f.priority)

\* C6 as claimed: in the script a run that completes has no reliance link,
\* neither 'Is relied upon by' nor 'Relies on', whose target is absent from
\* the complete issue set.
C6_EveryDanglingLinkAborts ==
    pc = "done" =>
        \A i \in Members(RawIssues) :
            (Targets(i, "Is relied upon by") \cup Targets(i, "Relies on"))
                \subseteq Keys(RawIssues)

\* C6 as amended: a 'Relies on' link of a User Story whose target is no
\* Feature or Policy always aborts the run, and nothing else aborts it; an
\* 'Is relied upon by' link of a Feature or Policy whose target is no User
\* Story is dropped by add_story_epics with one printed line, without
\* aborting.
C6_DanglingReliesOnAborts ==
    /\ pc = "done" =>
          \A s \in Members(raw.user_stories) :
              Targets(s, "Relies on") \subseteq Keys(features \o policies)
    /\ pc = "aborted" =>
          \E s \in Members(raw.user_stories) :
              ~(Targets(s, "Relies on") \subseteq Keys(features \o policies))
    /\ pc # "add_story_epics" =>
          \A i \in Members(features \o policies) :
              \A t \in Targets(RawOf(i.key), "Is relied upon by") :
                  t \notin Keys(raw.user_stories) =>
                      /\ t \notin Targets(i, "Is relied upon by")
                      /\ Cardinality({n \in DOMAIN log :
                            /\ log[n].msg = "Non-story linked, link ignored"
                            /\ log[n].key = i.key
                            /\ log[n].target = t}) = 1

\* the run was aborted by a story relying on a missing key, after the same
\* missing key was dropped from the links of a Feature
C6_Witness ==
    /\ pc = "aborted"
    /\ KeyX \in Targets(raw.user_stories[1], "Relies on")
    /\ KeyX \in Targets(raw.features[1], "Is relied upon by")
    /\ KeyX \notin Targets(features[1], "Is relied upon by")

\* C7: an empty reachable set is compared as Low.  After the passes a User
\* Story without 'Relies on' targets and above Low has been reported as an
\* inconsistency and, with modify, rewritten to Low; a Feature or Policy
\* without dependents and above Low has been reported as higher than
\* inferred.
C7_EmptyComparedAsLow ==
    (pc = "done" /\ run = 1) =>
        /\ \A i \in DOMAIN user_stories :
              LET s == raw.user_stories[i]
              IN (Targets(s, "Relies on") = {} /\ PV(s.priority) > PV("Low"))
                 => /\ Count(log,
                             "INCONSISTENCY: higher than inferred priority",
                             s.key) = 1
                    /\ modify2 => user_stories[i].priority = "Low"
        /\ \A i \in Members(features \o policies) :
              (/\ Targets(i, "Is relied upon by") = {}
               /\ PV(i.priority) > PV("Low"))
                 => Count(log, "higher than inferred priority", i.key) = 1

\* C8: in a step of Pass 2 that completes, a User Story with 'Relies on'
\* targets gets the INCONSISTENCY line exactly once if its priority is
\* higher than the lowest priority of those targets and not at all
\* otherwise, whatever modify is; a story below that lowest priority gets
\* the note "lower than inferred priority" once and keeps its priority.
C8_Step ==
    (pc = "check_story_priorities" /\ pc' = "done") =>
        \A i \in DOMAIN user_stories :
            LET s == user_stories[i]
                T == Targets(s, "Relies on")
                m == Least({PV(x.priority) :
                              x \in {y \in Members(features \o policies) :
                                        y.key \in T}})
            IN T # {} =>
                /\ Count(Printed,
                         "INCONSISTENCY: higher than inferred priority",
                         s.key) = IF PV(s.priority) > m THEN 1 ELSE 0
                /\ Count(Printed, "lower than inferred priority", s.key)
                      = IF PV(s.priority) < m THEN 1 ELSE 0
                /\ PV(s.priority) < m =>
                      user_stories'[i].priority = s.priority

C9_SecondRunChangesNothing ==
    run = 2 =>
        /\ Priorities = prev
        /\ \A n \in DOMAIN log :
              log[n].msg \notin {"priority changed", "Setting to priority"}

\* the second run is done after a first run, with both modify flags set,
\* that raised a Feature and lowered a story
C9_Witness ==
    /\ run = 2
    /\ pc = "done"
    /\ modify1
    /\ modify2
    /\ PV(features[1].priority) > PV(raw.features[1].priority)
    /\ \E i \in DOMAIN user_stories :
          PV(user_stories[i].priority) < PV(raw.user_stories[i].priority)

\* C10: within each epic group of the rendered user stories a story comes
\* before another only if its priority is higher, or equal with an issue
\* number that is not larger.
C10_GroupsByPriorityThenNumber ==
    pc = "rendered" =>
        \A a, b \in DOMAIN user_stories_txt :
            LET x == user_stories_txt[a]
                y == user_stories_txt[b]
            IN (/\ a < b
                /\ x.kind = "subsubsection"
                /\ y.kind = "subsubsection"
                /\ x.epic_name = y.epic_name)
               => \/ PV(x.priority) > PV(y.priority)
                  \/ /\ PV(x.priority) = PV(y.priority)
                     /\ key_number(x.key) <= key_number(y.key)

\* the entries of a rendered section that are issues, in their order
Entries(txt) == SelectSeq(txt, LAMBDA e : e.kind = "subsubsection")

\* the priority headings of a rendered section, in their order
Headings(txt) ==
    LET hs == SelectSeq(txt, LAMBDA e : e.kind = "subsection")
    IN [i \in DOMAIN hs |-> hs[i].priority]

\* the priority of the last heading before the n-th entry of a section
HeadingOf(txt, n) ==
    txt[Max({h \in 1..n : txt[h].kind = "subsection"})].priority

\* the position of the issue with the key in a list of issues
IndexOf(issues, key) == CHOOSE i \in DOMAIN issues : issues[i].key = key

\* a rendered section is grouped by priority under the headings Critical,
\* Major, Low; every issue of the list is in it exactly once, under the
\* heading of its priority; within a group issue numbers ascend, and
\* issues with the same number keep the order of the list
GroupedByPriority(txt, issues) ==
    /\ Headings(txt) = <<"Critical", "Major", "Low">>
    /\ Len(Entries(txt)) = Len(issues)
    /\ \A i \in DOMAIN issues :
          Cardinality({n \in DOMAIN txt :
              /\ txt[n].kind = "subsubsection"
              /\ txt[n].key = issues[i].key
              /\ txt[n].priority = issues[i].priority
              /\ HeadingOf(txt, n) = issues[i].priority}) = 1
    /\ \A a, b \in DOMAIN txt :
          (/\ a < b
           /\ txt[a].kind = "subsubsection"
           /\ txt[b].kind = "subsubsection"
           /\ HeadingOf(txt, a) = HeadingOf(txt, b))
          => \/ key_number(txt[a].key) < key_number(txt[b].key)
             \/ /\ key_number(txt[a].key) = key_number(txt[b].key)
                /\ IndexOf(issues, txt[a].key) < IndexOf(issues, txt[b].key)

\* C11: the rendered Features, and likewise the rendered Policies, are
\* grouped by priority in the order Critical, Major, Low, each group sorted
\* by ascending issue number with ties in input order, and every Feature
\* and Policy appears exactly once, in the group of its priority.
C11_GroupedByPriority ==
    /\ pc \in {"render_policies", "render_user_stories", "rendered"} =>
          GroupedByPriority(features_txt, features)
    /\ pc \in {"render_user_stories", "rendered"} =>
          GroupedByPriority(policies_txt, policies)

\* both sections are rendered; two Features of one priority have the same
\* issue number and the one with the larger key string came first; A-10
\* came before A-2 and is of the same priority; the Policies take two groups
C11_Witness ==
    /\ pc = "render_user_stories"
    /\ Len(features) = 3
    /\ features[1].key = <<"B", "-", "7">>
    /\ features[2].key = <<"A", "-", "1", "0">>
    /\ features[3].key = <<"A", "-", "7">>
    /\ features[1].priority = features[3].priority
    /\ features[2].priority = "Major"
    /\ features[1].priority = "Major"
    /\ Len(policies) = 2
    /\ PV(policies[1].priority) < PV(policies[2].priority)

\* the step add_story_epics takes on one list of Features or Policies:
\* each 'Is relied upon by' list becomes its sublist of User Story keys, in
\* the same order, and each other target is printed once as ignored
LinksFiltered(before, after) ==
    \A i \in DOMAIN before :
        LET old == before[i].issuelinks
            new == after[i].issuelinks
        IN /\ Targets(after[i], "Is relied upon by") \subseteq Keys(user_stories')
           /\ "Is relied upon by" \in DOMAIN old =>
                /\ new["Is relied upon by"]
                     = SelectSeq(old["Is relied upon by"],
                                 LAMBDA t : t \in Keys(user_stories))
                /\ \A t \in Targets(before[i], "Is relied upon by") :
                      Cardinality({n \in DOMAIN Printed :
                          /\ Printed[n].msg = "Non-story linked, link ignored"
                          /\ Printed[n].key = before[i].key
                          /\ Printed[n].target = t})
                        = IF t \in Keys(user_stories) THEN 0 ELSE 1

C12_Step ==
    pc = "add_story_epics" =>
        /\ pc' = "add_related"
        /\ LinksFiltered(features, features')
        /\ LinksFiltered(policies, policies')

\* C12: every step satisfies C12_Step: add_story_epics leaves in the 'Is
\* relied upon by' list of every Feature and Policy only the keys of
\* existing User Stories, in their original order, prints every other
\* target as ignored, and does not abort the run.
C12_OnlyStoryLinksKept == [][C12_Step]_vars

\* add_story_epics has dropped a missing key from between two story keys
\* of a Feature
C12_Witness ==
    /\ pc = "add_related"
    /\ "Is relied upon by" \in DOMAIN raw.features[1].issuelinks
    /\ raw.features[1].issuelinks["Is relied upon by"]
          = <<KeyS1, KeyX, KeyS2>>
    /\ features[1].issuelinks["Is relied upon by"] = <<KeyS1, KeyS2>>
    /\ \E n \in DOMAIN log : log[n].target = KeyX

\* the sum of the days, in half days, of the issues of a set of positions
RECURSIVE SumDays(_, _)
SumDays(issues, at) ==
    IF at = {} THEN 0
    ELSE LET i == CHOOSE i \in at : TRUE
         IN issues[i].days + SumDays(issues, at \ {i})

\* C13: after add_effort_estimates, for each priority that has Features one
\* line is printed whose count is the number of Features of the priority
\* and whose total is exactly the sum of the days of those that have an
\* estimate (1.5 and 2.0 days are printed as 3.5); the missing list is
\* exactly the keys of those without an estimate.
C13_EffortTotalsExact ==
    pc = "render_features" =>
        \A p \in {features[i].priority : i \in DOMAIN features} :
            LET of == {i \in DOMAIN features : features[i].priority = p}
                est == {i \in of : "days" \in DOMAIN features[i]}
                lines == {n \in DOMAIN log :
                             log[n].msg = "Effort estimate" /\ log[n].priority = p}
                miss == {n \in DOMAIN log :
                            /\ log[n].msg = "missing estimates for"
                            /\ log[n].priority = p}
            IN /\ Cardinality(lines) = 1
               /\ \A n \in lines :
                     /\ log[n].num = Cardinality(of)
                     /\ 2 * log[n].total = SumDays(features, est)
               /\ Cardinality(miss) = IF est = of THEN 0 ELSE 1
               /\ \A n \in miss :
                     log[n].target =
                        LET without == SelectSeq(features, LAMBDA issue :
                                issue.priority = p /\ "days" \notin DOMAIN issue)
                        IN [i \in DOMAIN without |-> without[i].key]

\* C13 without the total: the count and the missing list alone
C13_CountAndMissing ==
    pc = "render_features" =>
        \A p \in {features[i].priority : i \in DOMAIN features} :
            LET of == {i \in DOMAIN features : features[i].priority = p}
                est == {i \in of : "days" \in DOMAIN features[i]}
                lines == {n \in DOMAIN log :
                             log[n].msg = "Effort estimate" /\ log[n].priority = p}
                miss == {n \in DOMAIN log :
                            /\ log[n].msg = "missing estimates for"
                            /\ log[n].priority = p}
            IN /\ Cardinality(lines) = 1
               /\ \A n \in lines :
                     /\ log[n].num = Cardinality(of)
                     /\ log[n].total = SumDays(features, est) \div 2
               /\ Cardinality(miss) = IF est = of THEN 0 ELSE 1
               /\ \A n \in miss :
                     Members(log[n].target) = {features[i].key : i \in of \ est}

\* story s lists f under 'Relies on' exactly when the Feature or Policy f
\* lists s under 'Is relied upon by', in the issues as they were read
MutuallyInverse ==
    \A s \in Members(raw.user_stories) :
        \A f \in Members(raw.features \o raw.policies) :
            f.key \in Targets(s, "Relies on")
                <=> s.key \in Targets(f, "Is relied upon by")

\* C14: when the reliance links are mutually inverse and every target
\* resolves, so that the run gets through Pass 2, then after Pass 1 with
\* modify enabled Pass 2 prints no inconsistency for any user story: no
\* story's priority is above the lowest of the priorities of the Features
\* and Policies it relies on.
C14_InverseLinksConsistent ==
    (pc = "done" /\ modify1 /\ MutuallyInverse) =>
        /\ \A n \in DOMAIN log :
              log[n].msg # "INCONSISTENCY: higher than inferred priority"
        /\ \A s \in Members(user_stories) :
              Targets(s, "Relies on") # {} =>
                  PV(s.priority) <=
                      Least({PV(get_issue(features \o policies, t).issue.priority) :
                                t \in Targets(s, "Relies on")})

\* a Feature relied upon by a Critical and by a Low story, both of which
\* list it, was raised by Pass 1, and Pass 2 has gone over the stories
C14_Witness ==
    /\ pc = "done"
    /\ modify1
    /\ MutuallyInverse
    /\ Targets(raw.features[1], "Is relied upon by") = {KeyS1, KeyS2}
    /\ KeyF1 \in Targets(user_stories[1], "Relies on")
    /\ KeyF1 \in Targets(user_stories[2], "Relies on")
    /\ PV(user_stories[1].priority) > PV(user_stories[2].priority)
    /\ PV(features[1].priority) > PV(raw.features[1].priority)
    /\ features[1].priority = user_stories[1].priority

\* C14 without its premise on the links: false, a story may rely on a
\* Feature that does not list it
C14_AnyLinksConsistent ==
    (pc = "done" /\ modify1) =>
        \A n \in DOMAIN log :
            log[n].msg # "INCONSISTENCY: higher than inferred priority"

====
